---- MODULE Spec2Model ----
(***************************************************************************)
(* The logger registry and level control of go-log (log.go, setup.go):     *)
(* the package globals guarded by loggerMutex, the exported operations     *)
(* Logger, SetLogLevel, SetLogLevelRegex, SetPrimaryCore, GetSubsystems    *)
(* and SetupLogging, and the emit path of a handle returned by Logger.     *)
(*                                                                         *)
(* Spec         : the operations called one after the other (each action   *)
(*                is a whole call).                                        *)
(* ConcSpec     : the same operations run by several goroutines,           *)
(*                interleaved at the lock operations and at the atomic     *)
(*                level stores.                                            *)
(* FairSpec     : the goroutines under fair scheduling.                    *)
(* CreateSpec   : the goroutines calling the operations that add entries.  *)
(* WildcardSpec : the goroutines calling Logger and SetLogLevel("*", L).   *)
(* PathsSpec    : SetupLogging with every combination of destinations.     *)
(***************************************************************************)
EXTENDS Integers, Sequences, FiniteSets, Bags, TLC

(***************************************************************************)
(* Bounds of the model.                                                    *)
(***************************************************************************)
\* number of caller-chosen subsystem names (taken from NameUniverse)
NumNames == 1
\* levels LevelDebug..MaxLevel are used as inputs (configs, level strings, severities)
MaxLevel == 0
\* number of goroutines of ConcSpec
NumThreads == 2

(***************************************************************************)
(* Program constants.                                                      *)
(***************************************************************************)
\* the LogLevel values are zapcore's: Debug < Info < Warn < Error < DPanic < Panic < Fatal
LevelDebug == 0 - 1
LevelInfo == 0
LevelError == 2
LevelFatal == 5

FormatColorizedOutput == 0
FormatPlaintextOutput == 1
FormatJSONOutput == 2

ErrNoSuchLogger == "error: No such logger"

\* the tokens of the levels, in level order
LevelTokens == <<"debug", "info", "warn", "error", "dpanic", "panic", "fatal">>

Min(a, b) == IF a < b THEN a ELSE b

AllLevels == LevelDebug..LevelFatal
CfgLevels == LevelDebug..Min(MaxLevel, LevelFatal)
\* the formats used in configs
CfgFormats == {FormatJSONOutput}

(***************************************************************************)
(* Names.                                                                  *)
(***************************************************************************)
NameUniverse == <<"svc-x", "y", "abcd", "svc-z", "x">>
UserNames == {NameUniverse[i] : i \in 1..Min(NumNames, Len(NameUniverse))}
\* the names Logger("") uses
SetupLoggerName == "setup-logger"
UndefinedName == "undefined"
RegistryNames == UserNames \cup {SetupLoggerName, UndefinedName}

Range(f) == {f[k] : k \in DOMAIN f}

(***************************************************************************)
(* Values of the collaborators.                                            *)
(***************************************************************************)
\* the nil zapcore.Core
NilCore == [kind |-> "nil"]
\* cores built by the caller and passed to SetPrimaryCore
ExtCores == {[kind |-> "ext", id |-> "custom"]}

\* a sink zap.Open cannot open
BadURL == "nosink://x"
\* a file path normalizePath rejects
BadFile == "relative.log"

\* the Config values SetupLogging is called with: every combination of default
\* level and at most one override with destinations that open, and the same
\* defaults with a URL that does not
OverrideMaps == UNION {[D -> CfgLevels] : D \in {S \in SUBSET UserNames : Cardinality(S) <= 1}}
Configs ==
  [Format : CfgFormats, Stderr : {TRUE}, Stdout : {FALSE}, File : {""},
   URL : {""}, Level : CfgLevels, SubsystemLevels : OverrideMaps,
   Labels : {<<>>}]
  \cup
  [Format : CfgFormats, Stderr : {TRUE}, Stdout : {FALSE}, File : {""},
   URL : {BadURL}, Level : CfgLevels, SubsystemLevels : {<<>>},
   Labels : {<<>>}]

\* what configFromEnv returns when none of the GOLOG_ variables is set and
\* stderr is no terminal
DefaultConfig ==
  [Format |-> FormatPlaintextOutput, Stderr |-> TRUE, Stdout |-> FALSE, File |-> "",
   URL |-> "", Level |-> LevelError, SubsystemLevels |-> <<>>, Labels |-> <<>>]

\* what configFromEnv can return: stderr stays on unless a file is given
EnvConfigs == {cfg \in Configs : cfg.File = "" => cfg.Stderr}

(***************************************************************************)
(* State.                                                                  *)
(***************************************************************************)
VARIABLES
  loggers,        \* map name -> *zap.SugaredLogger (an id of zaps)
  levels,         \* map name -> zap.AtomicLevel (an id of cells)
  cells,          \* the AtomicLevel objects: id -> current level
  zaps,           \* the zap loggers built by getLogger: id -> [name, level]
  primaryFormat,
  defaultLevel,
  primaryCore,
  cores,          \* loggerCore.cores, the cores of the lockedMultiCore
  initialized,    \* the package's init() has run
  handles,        \* the ZapEventLoggers returned to callers so far
  ret,            \* the last call of Spec and its result
  mutex,          \* loggerMutex: the writer that holds or awaits it, and the readers
  pc,             \* ConcSpec: where each goroutine is in its call
  frame           \* ConcSpec: the arguments and locals of each goroutine's call

vars == <<loggers, levels, cells, zaps, primaryFormat, defaultLevel, primaryCore,
          cores, initialized, handles, ret, mutex, pc, frame>>

\* the state of the goroutines of ConcSpec
conc == <<mutex, pc, frame>>

Threads == 1..NumThreads
NoThread == 0
NoFrame == [op |-> "none"]

\* the package globals as one value
Globals ==
  [loggers |-> loggers, levels |-> levels, cells |-> cells, zaps |-> zaps,
   primaryFormat |-> primaryFormat, defaultLevel |-> defaultLevel,
   primaryCore |-> primaryCore, cores |-> cores]

\* the globals become G
Store(G) ==
  /\ loggers' = G.loggers
  /\ levels' = G.levels
  /\ cells' = G.cells
  /\ zaps' = G.zaps
  /\ primaryFormat' = G.primaryFormat
  /\ defaultLevel' = G.defaultLevel
  /\ primaryCore' = G.primaryCore
  /\ cores' = G.cores

EmptyMap == <<>>

Result(op, arg, err, val) == [op |-> op, arg |-> arg, err |-> err, val |-> val]

(***************************************************************************)
(* Collaborators: level parsing, regexp, zap.                              *)
(***************************************************************************)
\* LevelFromString: the token's level, or an error
LevelFromString(s) ==
  IF \E i \in DOMAIN LevelTokens : LevelTokens[i] = s
  THEN [err |-> "nil", lvl |-> (CHOOSE i \in DOMAIN LevelTokens : LevelTokens[i] = s) - 2]
  ELSE [err |-> "UnknownLevel", lvl |-> LevelInfo]

LevelStrings == {LevelTokens[l + 2] : l \in CfgLevels} \cup {"bogus"}

\* regexp.Compile on the patterns used here: a literal, anchored at the start or not
Compile(e) ==
  CASE e = "^svc-" -> [err |-> "nil", anchored |-> TRUE, lit |-> "svc-"]
    [] e = ".*" -> [err |-> "nil", anchored |-> FALSE, lit |-> ""]
    [] OTHER -> [err |-> "InvalidPattern", anchored |-> FALSE, lit |-> ""]

Patterns == {"^svc-", ".*", "("}

\* (*Regexp).MatchString: the literal occurs in name (at position 1 when anchored)
MatchString(rem, name) ==
  \E i \in 1..(Len(name) - Len(rem.lit) + 1) :
    /\ SubSeq(name, i, i + Len(rem.lit) - 1) = rem.lit
    /\ rem.anchored => i = 1

\* zap.NewAtomicLevelAt: a new AtomicLevel object for name
NewAtomicLevelId(G, name) ==
  <<name, 1 + Cardinality({h \in DOMAIN G.cells : h[1] = name})>>

\* zap.New(...).Sugar(): a new logger object for name
NewZapId(G, name) ==
  <<name, 1 + Cardinality({z \in DOMAIN G.zaps : z[1] = name})>>

\* AtomicLevel.SetLevel
SetLevel(G, h, lvl) == [G EXCEPT !.cells = [c \in DOMAIN G.cells |-> IF c = h THEN lvl ELSE G.cells[c]]]

Put(m, k, v) == [x \in DOMAIN m \cup {k} |-> IF x = k THEN v ELSE m[x]]

\* lockedMultiCore.AddCore
AddCore(cs, core) == Append(cs, core)

\* lockedMultiCore.ReplaceCore
ReplaceCore(cs, original, replacement) ==
  [i \in DOMAIN cs |-> IF cs[i] = original THEN replacement ELSE cs[i]]

\* normalizePath
normalizePath(p) == [err |-> IF p = BadFile THEN "error" ELSE "nil", path |-> p]

\* zap.Open succeeds on these paths
OpenOK(paths) == \A i \in DOMAIN paths : paths[i] # BadURL

\* newCore
newCore(format, outputs, level, labels) ==
  [kind |-> "zap", format |-> format, outputs |-> outputs, level |-> level, labels |-> labels]

(***************************************************************************)
(* The unexported helpers of log.go and setup.go, as functions of the      *)
(* globals.                                                                *)
(***************************************************************************)
\* createLogger, but the logger filters by a copy of the level taken at creation
\* instead of by the AtomicLevel kept in the levels map
createLogger_detached(G, name) ==
  LET ok == name \in DOMAIN G.levels
      level == IF ok THEN G.levels[name] ELSE NewAtomicLevelId(G, name)
      G1 == IF ok THEN G
            ELSE [G EXCEPT !.cells = Put(G.cells, level, G.defaultLevel),
                           !.levels = Put(G.levels, name, level)]
      copy == NewAtomicLevelId(G1, name)
      G2 == [G1 EXCEPT !.cells = Put(G1.cells, copy, G1.cells[level])]
      log == NewZapId(G2, name)
  IN [G |-> [G2 EXCEPT !.zaps = Put(G2.zaps, log, [name |-> name, level |-> copy]),
                       !.loggers = Put(G2.loggers, name, log)],
      log |-> log, created |-> TRUE, hadLevel |-> ok]

\* createLogger, but the logger always gets a new AtomicLevel at the default level
createLogger_fresh(G, name) ==
  LET level == NewAtomicLevelId(G, name)
      G1 == [G EXCEPT !.cells = Put(G.cells, level, G.defaultLevel),
                      !.levels = Put(G.levels, name, level)]
      log == NewZapId(G1, name)
  IN [G |-> [G1 EXCEPT !.zaps = Put(G1.zaps, log, [name |-> name, level |-> level]),
                       !.loggers = Put(G1.loggers, name, log)],
      log |-> log, created |-> TRUE, hadLevel |-> name \in DOMAIN G.levels]

\* getLogger's branch for a name that was not found in the loggers map: the
\* AtomicLevel of the levels map (a new one at the default level when there is
\* none) and a new logger filtered by it
createLogger(G, name) ==
  LET ok == name \in DOMAIN G.levels
      level == IF ok THEN G.levels[name] ELSE NewAtomicLevelId(G, name)
      G1 == IF ok THEN G
            ELSE [G EXCEPT !.cells = Put(G.cells, level, G.defaultLevel),
                           !.levels = Put(G.levels, name, level)]
      log == NewZapId(G1, name)
  IN [G |-> [G1 EXCEPT !.zaps = Put(G1.zaps, log, [name |-> name, level |-> level]),
                       !.loggers = Put(G1.loggers, name, log)],
      log |-> log, created |-> TRUE, hadLevel |-> ok]

\* getLogger's body (run under loggerMutex.Lock): the logger of name, created when missing
getLogger(G, name) ==
  IF name \in DOMAIN G.loggers
  THEN [G |-> G, log |-> G.loggers[name], created |-> FALSE, hadLevel |-> TRUE]
  ELSE createLogger(G, name)

\* setPrimaryCore, but the new core is always added
setPrimaryCore_add(G, core) ==
  [G EXCEPT !.cores = AddCore(G.cores, core), !.primaryCore = core]

\* setPrimaryCore, but with the arguments of ReplaceCore exchanged
setPrimaryCore_swapped(G, core) ==
  [G EXCEPT !.cores = IF G.primaryCore # NilCore
                      THEN ReplaceCore(G.cores, core, G.primaryCore)
                      ELSE AddCore(G.cores, core),
            !.primaryCore = core]

\* setPrimaryCore
setPrimaryCore(G, core) ==
  [G EXCEPT !.cores = IF G.primaryCore # NilCore
                      THEN ReplaceCore(G.cores, G.primaryCore, core)
                      ELSE AddCore(G.cores, core),
            !.primaryCore = core]

\* setAllLoggerLevel: every AtomicLevel of the levels map is set to lvl
setAllLoggerLevel(G, lvl) ==
  [G EXCEPT !.cells = [c \in DOMAIN G.cells |-> IF c \in Range(G.levels) THEN lvl ELSE G.cells[c]]]

\* the destinations SetupLogging hands to zap.Open
outputPaths(cfg) ==
  LET p1 == IF cfg.Stderr THEN <<"stderr">> ELSE <<>>
      p2 == IF cfg.Stdout THEN Append(p1, "stdout") ELSE p1
      p3 == IF Len(cfg.File) > 0 /\ normalizePath(cfg.File).err = "nil"
            THEN Append(p2, normalizePath(cfg.File).path) ELSE p2
  IN IF Len(cfg.URL) > 0 THEN Append(p3, cfg.URL) ELSE p3

\* the loop over cfg.SubsystemLevels: set the holder of a name, or create it
RECURSIVE applySubsystemLevels(_, _, _)
applySubsystemLevels(G, sub, todo) ==
  IF todo = {} THEN G
  ELSE LET name == CHOOSE n \in todo : TRUE
           G1 == IF name \in DOMAIN G.levels
                 THEN SetLevel(G, G.levels[name], sub[name])
                 ELSE LET h == NewAtomicLevelId(G, name)
                      IN [G EXCEPT !.cells = Put(G.cells, h, sub[name]),
                                   !.levels = Put(G.levels, name, h)]
       IN applySubsystemLevels(G1, sub, todo \ {name})

\* SetupLogging's body, but the levels are not reset to the new default
setupLogging_merge(G, cfg) ==
  LET G1 == [G EXCEPT !.primaryFormat = cfg.Format, !.defaultLevel = cfg.Level]
      paths == outputPaths(cfg)
  IN IF ~OpenOK(paths)
     THEN [panic |-> TRUE, G |-> G1]
     ELSE LET newPrimaryCore == newCore(G1.primaryFormat, paths, LevelDebug, cfg.Labels)
              G2 == setPrimaryCore(G1, newPrimaryCore)
          IN [panic |-> FALSE,
              G |-> applySubsystemLevels(G2, cfg.SubsystemLevels, DOMAIN cfg.SubsystemLevels)]

\* SetupLogging's body (run under loggerMutex.Lock): the globals it leaves, and
\* whether it panicked on zap.Open
setupLogging(G, cfg) ==
  LET G1 == [G EXCEPT !.primaryFormat = cfg.Format, !.defaultLevel = cfg.Level]
      paths == outputPaths(cfg)
  IN IF ~OpenOK(paths)
     THEN [panic |-> TRUE, G |-> G1]
     ELSE LET newPrimaryCore == newCore(G1.primaryFormat, paths, LevelDebug, cfg.Labels)
              G2 == setPrimaryCore(G1, newPrimaryCore)
              G3 == setAllLoggerLevel(G2, G2.defaultLevel)
          IN [panic |-> FALSE,
              G |-> applySubsystemLevels(G3, cfg.SubsystemLevels, DOMAIN cfg.SubsystemLevels)]

\* a core takes a record of severity sev
CoreEnabled(core, sev) == core.kind = "zap" => sev >= core.level

\* an emit of severity sev through the zap logger z: whether the logger's level
\* lets it through, and the cores of loggerCore it is written to
EmitThrough(G, z, sev) ==
  LET passed == sev >= G.cells[G.zaps[z].level]
  IN [passed |-> passed,
      wrote |-> IF passed THEN SelectSeq(G.cores, LAMBDA c : CoreEnabled(c, sev)) ELSE <<>>]

\* the slice GetSubsystems builds by appending every key of the map m once, up to
\* the order of the map iteration: the bag of its elements
RECURSIVE appendKeys(_, _)
appendKeys(subs, todo) ==
  IF todo = {} THEN subs
  ELSE LET k == CHOOSE n \in todo : TRUE
       IN appendKeys(subs (+) SetToBag({k}), todo \ {k})

\* the loop of SetLogLevelRegex, but the match is not consulted
regexSetLevels_all(G, rem, lvl) ==
  [G EXCEPT !.cells =
     [c \in DOMAIN G.cells |->
        IF \E name \in DOMAIN G.loggers : G.levels[name] = c THEN lvl ELSE G.cells[c]]]

\* the loop of SetLogLevelRegex over the loggers map
regexSetLevels(G, rem, lvl) ==
  [G EXCEPT !.cells =
     [c \in DOMAIN G.cells |->
        IF \E name \in DOMAIN G.loggers : MatchString(rem, name) /\ G.levels[name] = c
        THEN lvl ELSE G.cells[c]]]

\* GetSubsystems' body, but ranging over the levels map
getSubsystems_levels(G) == appendKeys(EmptyBag, DOMAIN G.levels)

\* GetSubsystems' body (run under loggerMutex.RLock): the names of the loggers map
getSubsystems(G) == appendKeys(EmptyBag, DOMAIN G.loggers)

(***************************************************************************)
(* Spec: the operations, one whole call per step.                          *)
(***************************************************************************)
Init ==
  /\ loggers = EmptyMap
  /\ levels = EmptyMap
  /\ cells = EmptyMap
  /\ zaps = EmptyMap
  /\ primaryFormat = FormatColorizedOutput
  /\ defaultLevel = LevelError
  /\ primaryCore = NilCore
  /\ cores = <<>>
  /\ initialized = FALSE
  /\ handles = {}
  /\ ret = Result("none", <<>>, "nil", <<>>)
  /\ mutex = [w |-> NoThread, readers |-> {}]
  /\ pc = [t \in Threads |-> "idle"]
  /\ frame = [t \in Threads |-> NoFrame]

\* init(): SetupLogging(configFromEnv()), with the environment giving one of
\* cfgs; a panic here ends the process
PkgInitFrom(cfgs) ==
  /\ ~initialized
  /\ \E cfg \in cfgs :
       LET r == setupLogging(Globals, cfg)
       IN /\ ~r.panic
          /\ Store(r.G)
          /\ ret' = Result("init", cfg, "nil", <<>>)
  /\ initialized' = TRUE
  /\ UNCHANGED <<handles, conc>>

PkgInit == PkgInitFrom(EnvConfigs)

SetupLogging(cfg) ==
  /\ initialized
  /\ LET r == setupLogging(Globals, cfg)
     IN /\ Store(r.G)
        /\ ret' = Result("SetupLogging", cfg, IF r.panic THEN "panic" ELSE "nil", <<>>)
  /\ UNCHANGED <<initialized, handles, conc>>

\* Logger, but the empty name is not replaced by "undefined"
Logger_emptyKept(system) ==
  /\ initialized
  /\ LET r0 == IF Len(system) = 0 THEN getLogger(Globals, SetupLoggerName)
               ELSE [G |-> Globals, log |-> <<>>, created |-> FALSE, hadLevel |-> FALSE]
         logged == IF Len(system) = 0
                   THEN <<EmitThrough(r0.G, r0.log, LevelError)>> ELSE <<>>
         r1 == getLogger(r0.G, system)
         h == [system |-> system, logger |-> r1.log]
     IN /\ Store(r1.G)
        /\ handles' = handles \cup {h}
        /\ ret' = Result("Logger", system, "nil",
                         [handle |-> h, logged |-> logged, created |-> r1.created,
                          hadLevel |-> r1.hadLevel])
  /\ UNCHANGED <<initialized, conc>>

Logger(system) ==
  /\ initialized
  /\ LET r0 == IF Len(system) = 0 THEN getLogger(Globals, SetupLoggerName)
               ELSE [G |-> Globals, log |-> <<>>, created |-> FALSE, hadLevel |-> FALSE]
         logged == IF Len(system) = 0
                   THEN <<EmitThrough(r0.G, r0.log, LevelError)>> ELSE <<>>
         sys == IF Len(system) = 0 THEN UndefinedName ELSE system
         r1 == getLogger(r0.G, sys)
         h == [system |-> sys, logger |-> r1.log]
     IN /\ Store(r1.G)
        /\ handles' = handles \cup {h}
        /\ ret' = Result("Logger", system, "nil",
                         [handle |-> h, logged |-> logged, created |-> r1.created,
                          hadLevel |-> r1.hadLevel])
  /\ UNCHANGED <<initialized, conc>>

\* SetLogLevel, but a name without AtomicLevel gets one at the given level
SetLogLevel_creating(name, level) ==
  /\ initialized
  /\ LET p == LevelFromString(level)
     IN IF p.err # "nil"
        THEN /\ Store(Globals)
             /\ ret' = Result("SetLogLevel", <<name, level>>, p.err, <<>>)
        ELSE IF name = "*"
        THEN /\ Store(setAllLoggerLevel(Globals, p.lvl))
             /\ ret' = Result("SetLogLevel", <<name, level>>, "nil", <<>>)
        ELSE /\ Store(applySubsystemLevels(Globals, [n \in {name} |-> p.lvl], {name}))
             /\ ret' = Result("SetLogLevel", <<name, level>>, "nil", <<>>)
  /\ UNCHANGED <<initialized, handles, conc>>

\* SetLogLevel, but the error of LevelFromString is dropped and its level used
SetLogLevel_defaulting(name, level) ==
  /\ initialized
  /\ LET p == LevelFromString(level)
     IN IF name = "*"
        THEN /\ Store(setAllLoggerLevel(Globals, p.lvl))
             /\ ret' = Result("SetLogLevel", <<name, level>>, "nil", <<>>)
        ELSE IF name \notin DOMAIN levels
        THEN /\ Store(Globals)
             /\ ret' = Result("SetLogLevel", <<name, level>>, ErrNoSuchLogger, <<>>)
        ELSE /\ Store(SetLevel(Globals, levels[name], p.lvl))
             /\ ret' = Result("SetLogLevel", <<name, level>>, "nil", <<>>)
  /\ UNCHANGED <<initialized, handles, conc>>

SetLogLevel(name, level) ==
  /\ initialized
  /\ LET p == LevelFromString(level)
     IN IF p.err # "nil"
        THEN /\ Store(Globals)
             /\ ret' = Result("SetLogLevel", <<name, level>>, p.err, <<>>)
        ELSE IF name = "*"
        THEN /\ Store(setAllLoggerLevel(Globals, p.lvl))
             /\ ret' = Result("SetLogLevel", <<name, level>>, "nil", <<>>)
        ELSE IF name \notin DOMAIN levels
        THEN /\ Store(Globals)
             /\ ret' = Result("SetLogLevel", <<name, level>>, ErrNoSuchLogger, <<>>)
        ELSE /\ Store(SetLevel(Globals, levels[name], p.lvl))
             /\ ret' = Result("SetLogLevel", <<name, level>>, "nil", <<>>)
  /\ UNCHANGED <<initialized, handles, conc>>

SetLogLevelRegex(e, l) ==
  /\ initialized
  /\ LET p == LevelFromString(l)
         rem == Compile(e)
     IN IF p.err # "nil"
        THEN /\ Store(Globals)
             /\ ret' = Result("SetLogLevelRegex", <<e, l>>, p.err, <<>>)
        ELSE IF rem.err # "nil"
        THEN /\ Store(Globals)
             /\ ret' = Result("SetLogLevelRegex", <<e, l>>, rem.err, <<>>)
        ELSE /\ Store(regexSetLevels(Globals, rem, p.lvl))
             /\ ret' = Result("SetLogLevelRegex", <<e, l>>, "nil", <<>>)
  /\ UNCHANGED <<initialized, handles, conc>>

SetPrimaryCore(core) ==
  /\ initialized
  /\ Store(setPrimaryCore(Globals, core))
  /\ ret' = Result("SetPrimaryCore", core, "nil", <<>>)
  /\ UNCHANGED <<initialized, handles, conc>>

GetSubsystems ==
  /\ initialized
  /\ ret' = Result("GetSubsystems", <<>>, "nil", getSubsystems(Globals))
  /\ UNCHANGED <<loggers, levels, cells, zaps, primaryFormat, defaultLevel,
                 primaryCore, cores, initialized, handles, conc>>

\* a leveled emit (Debug, Info, ...) through a handle Logger returned
Emit(h, sev) ==
  /\ initialized
  /\ ret' = Result("Emit", <<h, sev>>, "nil", EmitThrough(Globals, h.logger, sev))
  /\ UNCHANGED <<loggers, levels, cells, zaps, primaryFormat, defaultLevel,
                 primaryCore, cores, initialized, handles, conc>>

Next ==
  \/ PkgInit
  \/ \E cfg \in Configs : SetupLogging(cfg)
  \/ \E system \in UserNames \cup {""} : Logger(system)
  \/ \E name \in UserNames \cup {UndefinedName, "*"}, level \in LevelStrings : SetLogLevel(name, level)
  \/ \E e \in Patterns, l \in LevelStrings : SetLogLevelRegex(e, l)
  \/ \E core \in ExtCores : SetPrimaryCore(core)
  \/ GetSubsystems
  \/ \E h \in handles, sev \in CfgLevels : Emit(h, sev)

Spec == Init /\ [][Next]_vars

(***************************************************************************)
(* ConcSpec: the operations run by the goroutines of Threads. A call takes *)
(* loggerMutex as its code does, runs its body and releases the lock. The  *)
(* bodies are split where another goroutine that holds the lock in the     *)
(* same mode could interleave: at getLogger's lookup and at every          *)
(* AtomicLevel.SetLevel of the wildcard loop.                              *)
(***************************************************************************)
\* the Config values of ConcSpec: the default level Debug, with no override or
\* with one name at Info, and the same default with a URL that does not open
ConcConfigs ==
  [Format : CfgFormats, Stderr : {TRUE}, Stdout : {FALSE}, File : {""},
   URL : {""}, Level : {LevelDebug},
   SubsystemLevels : {<<>>} \cup UNION {[{n} -> {LevelInfo}] : n \in UserNames},
   Labels : {<<>>}]
  \cup
  [Format : CfgFormats, Stderr : {TRUE}, Stdout : {FALSE}, File : {""},
   URL : {BadURL}, Level : {LevelDebug}, SubsystemLevels : {<<>>}, Labels : {<<>>}]

\* init() of a process started with none of the GOLOG_ variables set
PkgInitNoEnv == PkgInitFrom({DefaultConfig})

\* LockKind, but SetupLogging takes the lock shared
LockKind_sharedSetup(op) ==
  IF op \in {"SetLogLevel", "GetSubsystems", "SetupLogging"} THEN "RLock" ELSE "Lock"

\* Logger, but getLogger takes the lock shared
LockKind_sharedGet(op) ==
  IF op \in {"Logger", "SetLogLevel", "GetSubsystems"} THEN "RLock" ELSE "Lock"

\* how each operation takes loggerMutex: Lock (Logger, in getLogger;
\* SetLogLevelRegex; SetPrimaryCore; SetupLogging) or RLock (SetLogLevel, GetSubsystems)
LockKind(op) ==
  IF op \in {"SetLogLevel", "GetSubsystems"} THEN "RLock" ELSE "Lock"

\* a call: the operation, its string arguments (a, b), its Config or core
\* argument (obj), the names getLogger is still to be called with, the
\* AtomicLevels the wildcard loop has still to set, and the logger getLogger
\* returned
Frame(op, a, b, names) ==
  [op |-> op, a |-> a, b |-> b, obj |-> NilCore, names |-> names, todo |-> {},
   log |-> <<>>]

\* the calls of each operation
LoggerCalls ==
  {Frame("Logger", system, "",
         IF Len(system) = 0 THEN <<SetupLoggerName, UndefinedName>> ELSE <<system>>) :
     system \in UserNames \cup {""}}
SetLogLevelCalls ==
  {Frame("SetLogLevel", name, level, <<>>) :
     name \in UserNames \cup {"*"}, level \in LevelStrings}
SetLogLevelRegexCalls ==
  {Frame("SetLogLevelRegex", e, l, <<>>) : e \in Patterns, l \in LevelStrings}
SetPrimaryCoreCalls ==
  {[Frame("SetPrimaryCore", "", "", <<>>) EXCEPT !.obj = core] : core \in ExtCores}
GetSubsystemsCalls == {Frame("GetSubsystems", "", "", <<>>)}
SetupLoggingCalls ==
  {[Frame("SetupLogging", "", "", <<>>) EXCEPT !.obj = cfg] : cfg \in ConcConfigs}

\* the call returns before it takes the lock: the level does not parse, or the
\* pattern does not compile
ReturnsEarly(f) ==
  \/ f.op \in {"SetLogLevel", "SetLogLevelRegex"} /\ LevelFromString(f.b).err # "nil"
  \/ f.op = "SetLogLevelRegex" /\ Compile(f.a).err # "nil"

\* goroutine t calls an operation
Call(t, f) ==
  /\ initialized
  /\ pc[t] = "idle"
  /\ IF ReturnsEarly(f)
     THEN UNCHANGED <<pc, frame>>
     ELSE /\ pc' = [pc EXCEPT ![t] = LockKind(f.op)]
          /\ frame' = [frame EXCEPT ![t] = f]
  /\ UNCHANGED <<loggers, levels, cells, zaps, primaryFormat, defaultLevel,
                 primaryCore, cores, initialized, handles, ret, mutex>>

\* loggerMutex.Lock, first half: the writer excludes the other writers and the
\* readers that arrive from now on
LockAnnounce(t) ==
  /\ pc[t] = "Lock"
  /\ mutex.w = NoThread
  /\ mutex' = [mutex EXCEPT !.w = t]
  /\ pc' = [pc EXCEPT ![t] = "LockWait"]
  /\ UNCHANGED <<loggers, levels, cells, zaps, primaryFormat, defaultLevel,
                 primaryCore, cores, initialized, handles, ret, frame>>

\* loggerMutex.Lock, second half: the readers have left
LockEnter(t) ==
  /\ pc[t] = "LockWait"
  /\ mutex.readers = {}
  /\ pc' = [pc EXCEPT ![t] = "Body"]
  /\ UNCHANGED <<loggers, levels, cells, zaps, primaryFormat, defaultLevel,
                 primaryCore, cores, initialized, handles, ret, mutex, frame>>

\* loggerMutex.RLock
RLockEnter(t) ==
  /\ pc[t] = "RLock"
  /\ mutex.w = NoThread
  /\ mutex' = [mutex EXCEPT !.readers = mutex.readers \cup {t}]
  /\ pc' = [pc EXCEPT ![t] = "Body"]
  /\ UNCHANGED <<loggers, levels, cells, zaps, primaryFormat, defaultLevel,
                 primaryCore, cores, initialized, handles, ret, frame>>

\* getLogger: log, ok := loggers[name]
LoggerLookup(t) ==
  /\ pc[t] = "Body"
  /\ frame[t].op = "Logger"
  /\ LET name == Head(frame[t].names)
     IN IF name \in DOMAIN loggers
        THEN /\ frame' = [frame EXCEPT ![t].log = loggers[name]]
             /\ pc' = [pc EXCEPT ![t] = "Release"]
        ELSE /\ pc' = [pc EXCEPT ![t] = "Create"]
             /\ UNCHANGED frame
  /\ UNCHANGED <<loggers, levels, cells, zaps, primaryFormat, defaultLevel,
                 primaryCore, cores, initialized, handles, ret, mutex>>

\* getLogger: the branch taken when the lookup found no logger
LoggerCreate(t) ==
  /\ pc[t] = "Create"
  /\ LET r == createLogger(Globals, Head(frame[t].names))
     IN /\ Store(r.G)
        /\ frame' = [frame EXCEPT ![t].log = r.log]
  /\ pc' = [pc EXCEPT ![t] = "Release"]
  /\ UNCHANGED <<initialized, handles, ret, mutex>>

\* SetLogLevel under the read lock: the wildcard starts the loop of
\* setAllLoggerLevel, an exact name is looked up in levels and set
SetLogLevelBody(t) ==
  /\ pc[t] = "Body"
  /\ frame[t].op = "SetLogLevel"
  /\ IF frame[t].a = "*"
     THEN /\ frame' = [frame EXCEPT ![t].todo = DOMAIN levels]
          /\ pc' = [pc EXCEPT ![t] = IF DOMAIN levels = {} THEN "Release" ELSE "Loop"]
          /\ Store(Globals)
     ELSE /\ Store(IF frame[t].a \in DOMAIN levels
                   THEN SetLevel(Globals, levels[frame[t].a], LevelFromString(frame[t].b).lvl)
                   ELSE Globals)
          /\ pc' = [pc EXCEPT ![t] = "Release"]
          /\ UNCHANGED frame
  /\ UNCHANGED <<initialized, handles, ret, mutex>>

\* one iteration of setAllLoggerLevel's range over levels: one SetLevel
SetAllLoggerLevelStep(t) ==
  /\ pc[t] = "Loop"
  /\ \E name \in frame[t].todo :
       /\ Store(SetLevel(Globals, levels[name], LevelFromString(frame[t].b).lvl))
       /\ frame' = [frame EXCEPT ![t].todo = frame[t].todo \ {name}]
       /\ pc' = [pc EXCEPT ![t] = IF frame[t].todo = {name} THEN "Release" ELSE "Loop"]
  /\ UNCHANGED <<initialized, handles, ret, mutex>>

\* the bodies that run under the exclusive lock, and GetSubsystems
LockedBody(t) ==
  /\ pc[t] = "Body"
  /\ frame[t].op \in {"SetLogLevelRegex", "SetPrimaryCore", "SetupLogging", "GetSubsystems"}
  /\ Store(CASE frame[t].op = "SetLogLevelRegex" ->
                  regexSetLevels(Globals, Compile(frame[t].a), LevelFromString(frame[t].b).lvl)
             [] frame[t].op = "SetPrimaryCore" -> setPrimaryCore(Globals, frame[t].obj)
             [] frame[t].op = "SetupLogging" -> setupLogging(Globals, frame[t].obj).G
             [] frame[t].op = "GetSubsystems" -> Globals)
  /\ pc' = [pc EXCEPT ![t] = "Release"]
  /\ UNCHANGED <<initialized, handles, ret, mutex, frame>>

\* Release, but Logger("") keeps the lock of its first getLogger call when it
\* calls getLogger again
Release_lockKept(t) ==
  /\ pc[t] = "Release"
  /\ IF frame[t].op = "Logger" /\ Len(frame[t].names) > 1
     THEN /\ mutex' = mutex
          /\ frame' = [frame EXCEPT ![t].names = Tail(frame[t].names)]
          /\ pc' = [pc EXCEPT ![t] = LockKind(frame[t].op)]
          /\ UNCHANGED handles
     ELSE /\ mutex' = IF LockKind(frame[t].op) = "Lock"
                      THEN [mutex EXCEPT !.w = NoThread]
                      ELSE [mutex EXCEPT !.readers = mutex.readers \ {t}]
          /\ frame' = [frame EXCEPT ![t] = NoFrame]
          /\ pc' = [pc EXCEPT ![t] = "idle"]
          /\ handles' = IF frame[t].op = "Logger"
                        THEN handles \cup {[system |-> Head(frame[t].names),
                                            logger |-> frame[t].log]}
                        ELSE handles
  /\ UNCHANGED <<loggers, levels, cells, zaps, primaryFormat, defaultLevel,
                 primaryCore, cores, initialized, ret>>

\* the deferred Unlock / RUnlock, and the return: Logger calls getLogger again
\* for the next name, or returns its handle
Release(t) ==
  /\ pc[t] = "Release"
  /\ mutex' = IF LockKind(frame[t].op) = "Lock"
              THEN [mutex EXCEPT !.w = NoThread]
              ELSE [mutex EXCEPT !.readers = mutex.readers \ {t}]
  /\ IF frame[t].op = "Logger" /\ Len(frame[t].names) > 1
     THEN /\ frame' = [frame EXCEPT ![t].names = Tail(frame[t].names)]
          /\ pc' = [pc EXCEPT ![t] = LockKind(frame[t].op)]
          /\ UNCHANGED handles
     ELSE /\ frame' = [frame EXCEPT ![t] = NoFrame]
          /\ pc' = [pc EXCEPT ![t] = "idle"]
          /\ handles' = IF frame[t].op = "Logger"
                        THEN handles \cup {[system |-> Head(frame[t].names),
                                            logger |-> frame[t].log]}
                        ELSE handles
  /\ UNCHANGED <<loggers, levels, cells, zaps, primaryFormat, defaultLevel,
                 primaryCore, cores, initialized, ret>>

ConcNext ==
  \/ PkgInitNoEnv
  \/ \E t \in Threads :
       \/ \E f \in LoggerCalls : Call(t, f)
       \/ \E f \in SetLogLevelCalls : Call(t, f)
       \/ \E f \in SetLogLevelRegexCalls : Call(t, f)
       \/ \E f \in SetPrimaryCoreCalls : Call(t, f)
       \/ \E f \in GetSubsystemsCalls : Call(t, f)
       \/ \E f \in SetupLoggingCalls : Call(t, f)
       \/ LockAnnounce(t)
       \/ LockEnter(t)
       \/ RLockEnter(t)
       \/ LoggerLookup(t)
       \/ LoggerCreate(t)
       \/ SetLogLevelBody(t)
       \/ SetAllLoggerLevelStep(t)
       \/ LockedBody(t)
       \/ Release(t)

ConcSpec == Init /\ [][ConcNext]_vars

(***************************************************************************)
(* FairSpec: every operation called by the goroutines, with one level      *)
(* string and one pattern, under the scheduling the Go runtime gives. A    *)
(* goroutine that can take a step of its call takes one (weak fairness of  *)
(* the steps inside a call); a goroutine waiting in Lock or RLock gets the *)
(* mutex when it is free again and again (strong fairness: sync.Mutex      *)
(* hands the lock to a starving waiter, and RWMutex.Unlock admits the      *)
(* readers that waited). Nothing obliges a goroutine to make a call.       *)
(***************************************************************************)
\* SetLogLevel(name, "debug") for a name and for the wildcard, and a call whose
\* level does not parse
FairSetLogLevelCalls ==
  {f \in SetLogLevelCalls : f.b = "debug" \/ (f.a = "*" /\ f.b = "bogus")}
\* SetLogLevelRegex(".*", "debug")
FairSetLogLevelRegexCalls == {f \in SetLogLevelRegexCalls : f.a = ".*" /\ f.b = "debug"}
\* SetupLogging without overrides: one call that returns, one that panics
FairSetupLoggingCalls == {f \in SetupLoggingCalls : f.obj.SubsystemLevels = <<>>}

FairNext ==
  \/ PkgInitNoEnv
  \/ \E t \in Threads :
       \/ \E f \in LoggerCalls : Call(t, f)
       \/ \E f \in FairSetLogLevelCalls : Call(t, f)
       \/ \E f \in FairSetLogLevelRegexCalls : Call(t, f)
       \/ \E f \in SetPrimaryCoreCalls : Call(t, f)
       \/ \E f \in GetSubsystemsCalls : Call(t, f)
       \/ \E f \in FairSetupLoggingCalls : Call(t, f)
       \/ LockAnnounce(t)
       \/ LockEnter(t)
       \/ RLockEnter(t)
       \/ LoggerLookup(t)
       \/ LoggerCreate(t)
       \/ SetLogLevelBody(t)
       \/ SetAllLoggerLevelStep(t)
       \/ LockedBody(t)
       \/ Release(t)

FairSpec ==
  /\ Init
  /\ [][FairNext]_vars
  /\ \A t \in Threads :
       /\ SF_vars(LockAnnounce(t))
       /\ SF_vars(RLockEnter(t))
       /\ WF_vars(LockEnter(t))
       /\ WF_vars(LoggerLookup(t))
       /\ WF_vars(LoggerCreate(t))
       /\ WF_vars(SetLogLevelBody(t))
       /\ WF_vars(SetAllLoggerLevelStep(t))
       /\ WF_vars(LockedBody(t))
       /\ WF_vars(Release(t))

(***************************************************************************)
(* CreateSpec: the goroutines call only the operations that add entries to *)
(* the registry (Logger, SetupLogging), and GetSubsystems.                 *)
(***************************************************************************)
CreateNext ==
  \/ PkgInitNoEnv
  \/ \E t \in Threads :
       \/ \E f \in LoggerCalls : Call(t, f)
       \/ \E f \in GetSubsystemsCalls : Call(t, f)
       \/ \E f \in SetupLoggingCalls : Call(t, f)
       \/ LockAnnounce(t)
       \/ LockEnter(t)
       \/ RLockEnter(t)
       \/ LoggerLookup(t)
       \/ LoggerCreate(t)
       \/ LockedBody(t)
       \/ Release(t)

CreateSpec == Init /\ [][CreateNext]_vars

(***************************************************************************)
(* WildcardSpec: the goroutines call Logger and SetLogLevel("*", L), in a  *)
(* process that init() left at the default level error and with L another  *)
(* level than error.                                                       *)
(***************************************************************************)
WildcardCalls ==
  {f \in SetLogLevelCalls :
     /\ f.a = "*"
     /\ LevelFromString(f.b).err = "nil"
     /\ LevelFromString(f.b).lvl # DefaultConfig.Level}

WildcardNext ==
  \/ PkgInitNoEnv
  \/ \E t \in Threads :
       \/ \E f \in LoggerCalls : Call(t, f)
       \/ \E f \in WildcardCalls : Call(t, f)
       \/ LockAnnounce(t)
       \/ LockEnter(t)
       \/ RLockEnter(t)
       \/ LoggerLookup(t)
       \/ LoggerCreate(t)
       \/ SetLogLevelBody(t)
       \/ SetAllLoggerLevelStep(t)
       \/ Release(t)

WildcardSpec == Init /\ [][WildcardNext]_vars

(***************************************************************************)
(* PathsSpec: SetupLogging called with every combination of destinations.  *)
(***************************************************************************)
\* a file path normalizePath accepts, and a URL zap.Open can open
GoodFile == "/var/log/app.log"
GoodURL == "udp://127.0.0.1:514"

\* the Config values of PathsSpec: each of stderr, stdout, file and URL given
\* or not, no overrides
PathConfigs ==
  [Format : {FormatColorizedOutput, FormatPlaintextOutput, FormatJSONOutput},
   Stderr : BOOLEAN, Stdout : BOOLEAN, File : {"", GoodFile, BadFile},
   URL : {"", GoodURL}, Level : CfgLevels, SubsystemLevels : {<<>>},
   Labels : {<<>>}]

PathsNext ==
  \/ PkgInitNoEnv
  \/ \E cfg \in PathConfigs : SetupLogging(cfg)

PathsSpec == Init /\ [][PathsNext]_vars

(***************************************************************************)
(* Notions the properties use.                                             *)
(***************************************************************************)
\* the level that filters the records of subsystem n
SubsystemLevel(n) == cells[zaps[loggers[n]].level]

\* the same after the step
SubsystemLevelNext(n) == cells'[zaps'[loggers'[n]].level]

\* the last call was a successful SetLogLevel / SetLogLevelRegex / ...
RetOK(op) == ret.op = op /\ ret.err = "nil"

\* the level a level-setting call named
RetLevel(r) == LevelFromString(r.arg[2]).lvl

\* the last call installed a primary core
RetInstalled(r) == r.op \in {"init", "SetupLogging", "SetPrimaryCore"} /\ r.err = "nil"

\* the core the call r installed
InstalledBy(r) ==
  IF r.op = "SetPrimaryCore" THEN r.arg
  ELSE newCore(r.arg.Format, outputPaths(r.arg), LevelDebug, r.arg.Labels)

\* the subsystem a Logger call returned a handle for
RetSystem(r) == r.val.handle.system

(***************************************************************************)
(* C2: handles share the live level state. Every handle filters by the     *)
(* AtomicLevel the levels map holds for its name, and right after a        *)
(* successful SetLogLevel(name, L) an emit of any severity through any     *)
(* handle for name passes the level filter iff the severity is at least L. *)
(***************************************************************************)
C2_HandlesShareLevel ==
  /\ \A h \in handles :
       /\ h.system \in DOMAIN levels
       /\ zaps[h.logger].level = levels[h.system]
  /\ (RetOK("SetLogLevel") /\ ret.arg[1] # "*") =>
       \A h \in handles : h.system = ret.arg[1] =>
         \A sev \in AllLevels :
           EmitThrough(Globals, h.logger, sev).passed <=> sev >= RetLevel(ret)

\* SetLogLevel(name, "debug") has returned nil for a name with a handle, the
\* default level is above debug, and a Debug emit through the handle passes
C2_Witness ==
  /\ RetOK("SetLogLevel") /\ ret.arg[1] # "*" /\ ret.arg[2] = "debug"
  /\ defaultLevel > LevelDebug
  /\ \E h \in handles :
       h.system = ret.arg[1] /\ EmitThrough(Globals, h.logger, LevelDebug).passed

(***************************************************************************)
(* C3 as stated: SetLogLevel("*", L) sets every known subsystem to L, and  *)
(* a subsystem first created by the Logger call that follows it starts at  *)
(* the process default level. setAllLoggerLevel ranges over the levels     *)
(* map, so it also writes the holders SetupLogging created for names that  *)
(* are no subsystems yet, and such a name then starts at L.                *)
(***************************************************************************)
C3_Original ==
  [][/\ (ret'.op = "SetLogLevel" /\ ret'.err = "nil" /\ ret'.arg[1] = "*") =>
          \A n \in DOMAIN loggers' : SubsystemLevelNext(n) = RetLevel(ret')
     /\ (RetOK("SetLogLevel") /\ ret.arg[1] = "*" /\ ret'.op = "Logger"
           /\ ret'.val.created) =>
          SubsystemLevelNext(RetSystem(ret')) = defaultLevel']_vars

(***************************************************************************)
(* C4 as stated: SetLogLevel(name, L) with name # "*", a valid L and a     *)
(* name that was never created as a subsystem returns ErrNoSuchLogger and  *)
(* changes no level, default level or registry entry.                      *)
(***************************************************************************)
C4_NoSuchLogger ==
  [][(ret'.op = "SetLogLevel" /\ ret'.arg[1] # "*"
        /\ LevelFromString(ret'.arg[2]).err = "nil"
        /\ ret'.arg[1] \notin DOMAIN loggers) =>
       /\ ret'.err = ErrNoSuchLogger
       /\ UNCHANGED <<loggers, levels, cells, zaps, defaultLevel>>]_vars

(***************************************************************************)
(* C5: SetLogLevelRegex(pattern, L) with a valid level: with a valid       *)
(* pattern it returns nil, every known subsystem whose name matches is at  *)
(* L afterwards and every other level (of a non-matching subsystem or of a *)
(* holder without subsystem) is unchanged; with an invalid pattern it      *)
(* returns the compile error and no level changes. No entry is added.      *)
(***************************************************************************)
C5_RegexSetsMatching ==
  [][(ret'.op = "SetLogLevelRegex" /\ LevelFromString(ret'.arg[2]).err = "nil") =>
       LET rem == Compile(ret'.arg[1])
           matching == {n \in DOMAIN loggers : MatchString(rem, n)}
       IN /\ UNCHANGED <<loggers, levels, zaps>>
          /\ DOMAIN cells' = DOMAIN cells
          /\ IF rem.err = "nil"
             THEN /\ ret'.err = "nil"
                  /\ \A n \in matching : SubsystemLevelNext(n) = RetLevel(ret')
                  /\ \A n \in DOMAIN loggers \ matching : SubsystemLevelNext(n) = SubsystemLevel(n)
                  /\ \A c \in DOMAIN cells :
                       c \notin {levels[n] : n \in matching} => cells'[c] = cells[c]
             ELSE /\ ret'.err = rem.err
                  /\ cells' = cells]_vars

\* right after SetLogLevelRegex("^svc-", L): a matching subsystem is at L and a
\* non-matching one is at another level
C5_Witness ==
  /\ RetOK("SetLogLevelRegex") /\ ret.arg[1] = "^svc-"
  /\ \E n \in DOMAIN loggers :
       MatchString(Compile(ret.arg[1]), n) /\ SubsystemLevel(n) = RetLevel(ret)
  /\ \E n \in DOMAIN loggers :
       ~MatchString(Compile(ret.arg[1]), n) /\ SubsystemLevel(n) # RetLevel(ret)

(***************************************************************************)
(* C6: reset-then-apply. After SetupLogging(cfg) has returned, every known *)
(* subsystem is at cfg.SubsystemLevels[name] when name is a key of         *)
(* cfg.SubsystemLevels and at cfg.Level otherwise.                         *)
(***************************************************************************)
C6_ResetThenApply ==
  RetOK("SetupLogging") =>
    \A n \in DOMAIN loggers :
      SubsystemLevel(n) = IF n \in DOMAIN ret.arg.SubsystemLevels
                          THEN ret.arg.SubsystemLevels[n] ELSE ret.arg.Level

\* right after a SetupLogging(cfg): one subsystem is at its override, which
\* differs from cfg.Level, and another one is at cfg.Level
C6_Witness ==
  /\ RetOK("SetupLogging")
  /\ \E n \in DOMAIN loggers :
       /\ n \in DOMAIN ret.arg.SubsystemLevels
       /\ ret.arg.SubsystemLevels[n] # ret.arg.Level
       /\ SubsystemLevel(n) = ret.arg.SubsystemLevels[n]
  /\ \E n \in DOMAIN loggers :
       n \notin DOMAIN ret.arg.SubsystemLevels /\ SubsystemLevel(n) = ret.arg.Level

(***************************************************************************)
(* C7: reconfiguration reaches existing handles. Right after a SetupLogging*)
(* or SetPrimaryCore call has returned, a record that passes the level     *)
(* filter of any handle obtained before the call is written to the core    *)
(* that call installed and to no other core.                               *)
(***************************************************************************)
C7_EmitReachesNewCore ==
  (RetInstalled(ret) /\ ret.op # "init") =>
    \A h \in handles, sev \in AllLevels :
      EmitThrough(Globals, h.logger, sev).passed =>
        EmitThrough(Globals, h.logger, sev).wrote = <<InstalledBy(ret)>>

\* right after SetPrimaryCore replaced the core SetupLogging had installed,
\* a record through an existing handle passes and is written to the new core
C7_Witness ==
  /\ RetOK("SetPrimaryCore")
  /\ \E h \in handles, sev \in CfgLevels :
       /\ EmitThrough(Globals, h.logger, sev).passed
       /\ EmitThrough(Globals, h.logger, sev).wrote = <<ret.arg>>

(***************************************************************************)
(* C8: exactly one primary core is active. Once init() has run, the        *)
(* multiplexing core holds exactly one core; a returning SetupLogging or   *)
(* SetPrimaryCore leaves the core it installed there (added by the first   *)
(* installation, replacing the previous core afterwards), and no other     *)
(* step changes it.                                                        *)
(***************************************************************************)
C8_OnePrimaryCore ==
  [][initialized' =>
       /\ Len(cores') = 1
       /\ cores'[1] = primaryCore'
       /\ IF RetInstalled(ret') THEN cores'[1] = InstalledBy(ret')
          ELSE cores' = cores]_vars

\* SetPrimaryCore has returned: the multiplexing core holds the caller's core
\* alone, in the place of the core init() had added
C8_Witness ==
  /\ RetOK("SetPrimaryCore")
  /\ Len(cores) = 1
  /\ cores[1] = ret.arg
  /\ cores[1].kind = "ext"

(***************************************************************************)
(* C9: GetSubsystems returns every name of the loggers map exactly once    *)
(* and no other name.                                                      *)
(***************************************************************************)
C9_GetSubsystemsExact ==
  ret.op = "GetSubsystems" =>
    /\ BagToSet(ret.val) = DOMAIN loggers
    /\ \A n \in DOMAIN loggers : CopiesIn(n, ret.val) = 1

\* GetSubsystems returned two names while a third name has only a level holder
C9_Witness ==
  /\ ret.op = "GetSubsystems"
  /\ Cardinality(BagToSet(ret.val)) >= 2
  /\ \E n \in DOMAIN levels : n \notin DOMAIN loggers

(***************************************************************************)
(* C10 as stated, for a subsystem whose level nobody set: every subsystem  *)
(* has a level holder, and a subsystem that the previous call created      *)
(* together with its holder, and that the present call does not name in a  *)
(* level-setting argument, is at the process default level.                *)
(***************************************************************************)
C10_LevelDefined ==
  [][/\ \A n \in DOMAIN loggers' :
          n \in DOMAIN levels' /\ zaps'[loggers'[n]].level \in DOMAIN cells'
     /\ (ret.op = "Logger" /\ ret.val.created /\ ~ret.val.hadLevel
           /\ ret'.op = "SetupLogging"
           /\ RetSystem(ret) \notin DOMAIN ret'.arg.SubsystemLevels) =>
          SubsystemLevelNext(RetSystem(ret)) = defaultLevel']_vars

(***************************************************************************)
(* C1: get-or-create is idempotent under any interleaving. For every name, *)
(* at most one logger and at most one AtomicLevel are ever created, and    *)
(* every handle Logger has returned is backed by the logger the registry   *)
(* holds for its name and filters by the AtomicLevel the registry holds.   *)
(***************************************************************************)
C1_GetOrCreateIdempotent ==
  /\ \A n \in RegistryNames :
       /\ Cardinality({z \in DOMAIN zaps : z[1] = n}) <= 1
       /\ Cardinality({c \in DOMAIN cells : c[1] = n}) <= 1
  /\ \A n \in DOMAIN loggers : n \in DOMAIN levels
  /\ \A h \in handles :
       /\ h.system \in DOMAIN loggers
       /\ loggers[h.system] = h.logger
       /\ zaps[h.logger].level = levels[h.system]

\* a Logger call has returned a handle while another goroutine is inside
\* getLogger for the same name, after its lookup found the logger
C1_Witness ==
  \E h \in handles, t \in Threads :
    /\ pc[t] = "Release"
    /\ frame[t].op = "Logger"
    /\ Head(frame[t].names) = h.system
    /\ frame[t].log = h.logger

(***************************************************************************)
(* C11: a subsystem can be pre-configured before it exists. A Logger call  *)
(* that creates subsystem n reuses the AtomicLevel the levels map holds    *)
(* for n and leaves its level as it is, so that right after a SetupLogging *)
(* (or init) with SubsystemLevels[n] = L the subsystem starts at L; for a  *)
(* name without holder the subsystem starts at the default level current   *)
(* at the call.                                                            *)
(***************************************************************************)
C11_PreConfigured ==
  [][(ret'.op = "Logger" /\ ret'.val.created) =>
       LET n == RetSystem(ret')
       IN IF n \in DOMAIN levels
          THEN /\ levels'[n] = levels[n]
               /\ zaps'[loggers'[n]].level = levels[n]
               /\ SubsystemLevelNext(n) = cells[levels[n]]
               /\ (/\ ret.op \in {"init", "SetupLogging"}
                   /\ ret.err = "nil"
                   /\ n \in DOMAIN ret.arg.SubsystemLevels) =>
                    SubsystemLevelNext(n) = ret.arg.SubsystemLevels[n]
          ELSE SubsystemLevelNext(n) = defaultLevel]_vars

\* Logger has created a subsystem on the holder SetupLogging had made for its
\* name, at a level that is not the default level
C11_Witness ==
  /\ ret.op = "Logger" /\ ret.val.created /\ ret.val.hadLevel
  /\ levels[RetSystem(ret)] = <<RetSystem(ret), 1>>
  /\ SubsystemLevel(RetSystem(ret)) # defaultLevel

(***************************************************************************)
(* C12: an unparseable level string is never silently defaulted.           *)
(* SetLogLevel(name, s) and SetLogLevelRegex(p, s) with a string s that is *)
(* no level return the parse error, for every name ("*" included) and      *)
(* every pattern, and change no level, no registry entry and not the       *)
(* default level.                                                          *)
(***************************************************************************)
C12_BadLevelRejected ==
  [][(/\ ret'.op \in {"SetLogLevel", "SetLogLevelRegex"}
      /\ LevelFromString(ret'.arg[2]).err # "nil") =>
       /\ ret'.err = LevelFromString(ret'.arg[2]).err
       /\ UNCHANGED <<loggers, levels, cells, zaps, defaultLevel>>]_vars

\* SetLogLevel("*", "bogus") has returned the parse error while there are
\* subsystems, none of them at the level a defaulted parse would give
C12_Witness ==
  /\ ret.op = "SetLogLevel" /\ ret.arg = <<"*", "bogus">>
  /\ ret.err = LevelFromString("bogus").err /\ ret.err # "nil"
  /\ DOMAIN loggers # {}
  /\ \A n \in DOMAIN loggers : SubsystemLevel(n) # LevelFromString("bogus").lvl

(***************************************************************************)
(* C13: Logger("") does not fail the caller. It emits one Error record     *)
(* through the logger "setup-logger" and returns a handle bound to the     *)
(* name "undefined" and backed by the registry's logger of that name;      *)
(* afterwards the registry has the entries "undefined" and "setup-logger", *)
(* and it never has an entry with the empty name.                          *)
(***************************************************************************)
C13_EmptyNameSubstituted ==
  /\ "" \notin DOMAIN loggers
  /\ "" \notin DOMAIN levels
  /\ \A h \in handles : h.system # ""
  /\ (ret.op = "Logger" /\ ret.arg = "") =>
       /\ ret.err = "nil"
       /\ ret.val.handle.system = UndefinedName
       /\ {UndefinedName, SetupLoggerName} \subseteq DOMAIN loggers
       /\ ret.val.handle.logger = loggers[UndefinedName]
       /\ ret.val.logged = <<EmitThrough(Globals, loggers[SetupLoggerName], LevelError)>>

\* the first Logger("") has returned: it created "undefined", and its Error
\* record passed the level of "setup-logger" and was written to the primary core
C13_Witness ==
  /\ ret.op = "Logger" /\ ret.arg = "" /\ ret.val.created
  /\ ret.val.logged[1].passed
  /\ ret.val.logged[1].wrote = <<primaryCore>>

(***************************************************************************)
(* C14: no operation blocks indefinitely. Under the scheduling of FairSpec *)
(* every call a goroutine has started returns (Logger("") with its two     *)
(* lock acquisitions and a SetupLogging that panics included), and when no *)
(* call is running loggerMutex is free.                                    *)
(***************************************************************************)
C14_EveryCallReturns ==
  /\ \A t \in Threads : (pc[t] # "idle") ~> (pc[t] = "idle")
  /\ []((\A t \in Threads : pc[t] = "idle") => mutex = [w |-> NoThread, readers |-> {}])

\* a goroutine waits for the lock in the second getLogger call of Logger("")
\* while another one holds it in a SetupLogging that panicked on zap.Open
C14_Witness ==
  \E t, u \in Threads :
    /\ t # u
    /\ frame[t].op = "Logger" /\ frame[t].names = <<UndefinedName>> /\ pc[t] = "Lock"
    /\ mutex.w = u /\ pc[u] = "Release"
    /\ frame[u].op = "SetupLogging" /\ frame[u].obj.URL = BadURL

(***************************************************************************)
(* C15 as stated: a SetupLogging call whose outputs cannot be opened       *)
(* panics and leaves the primary core, the primary format, the process     *)
(* default level and every subsystem level as they were before the call.   *)
(* The code assigns primaryFormat and defaultLevel before it calls         *)
(* zap.Open, so the two keep the values of the rejected Config.            *)
(***************************************************************************)
C15_PanicChangesNothing ==
  [][(ret'.op = "SetupLogging" /\ ret'.err = "panic") =>
       UNCHANGED <<primaryCore, cores, primaryFormat, defaultLevel, cells,
                   loggers, levels, zaps>>]_vars

(***************************************************************************)
(* C16: the registry structure is changed only by Logger and SetupLogging. *)
(* No step removes or replaces an entry of the loggers map or of the       *)
(* levels map; SetLogLevel, SetLogLevelRegex, SetPrimaryCore, GetSubsystems*)
(* and an emit leave both maps as they are, whether they return an error   *)
(* or not; SetupLogging adds no logger.                                    *)
(***************************************************************************)
C16_RegistryOnlyGrows ==
  [][/\ \A n \in DOMAIN loggers : n \in DOMAIN loggers' /\ loggers'[n] = loggers[n]
     /\ \A n \in DOMAIN levels : n \in DOMAIN levels' /\ levels'[n] = levels[n]
     /\ ret'.op \in {"SetLogLevel", "SetLogLevelRegex", "SetPrimaryCore",
                     "GetSubsystems", "Emit"} =>
          UNCHANGED <<loggers, levels, zaps>> /\ DOMAIN cells' = DOMAIN cells
     /\ ret'.op = "SetupLogging" => UNCHANGED <<loggers, zaps>>]_vars

\* SetLogLevel has returned ErrNoSuchLogger for a name that is in neither map,
\* while the registry has a logger
C16_Witness ==
  /\ ret.op = "SetLogLevel" /\ ret.err = ErrNoSuchLogger
  /\ ret.arg[1] \notin DOMAIN levels \cup DOMAIN loggers
  /\ DOMAIN loggers # {}

(***************************************************************************)
(* C17: structural mutations happen only under the exclusive lock. Once    *)
(* init() has run, a step that writes the loggers map, the levels map,     *)
(* defaultLevel, primaryFormat or primaryCore is taken by the goroutine    *)
(* that holds loggerMutex exclusively, while no goroutine holds it shared  *)
(* and every other goroutine is outside the locked bodies; a goroutine     *)
(* that holds the lock shared (SetLogLevel, GetSubsystems) writes nothing  *)
(* but the levels of existing AtomicLevels.                                *)
(***************************************************************************)
C17_WritesUnderExclusiveLock ==
  [][initialized =>
       /\ (<<loggers, levels, zaps, defaultLevel, primaryFormat, primaryCore, cores>>'
             # <<loggers, levels, zaps, defaultLevel, primaryFormat, primaryCore, cores>>) =>
            \E t \in Threads :
              /\ mutex.w = t
              /\ mutex.readers = {}
              /\ pc[t] \in {"Body", "Create"}
              /\ pc'[t] # pc[t]
              /\ \A u \in Threads \ {t} : pc[u] \in {"idle", "Lock", "RLock"}
       /\ \A t \in mutex.readers :
            pc'[t] # pc[t] =>
              /\ UNCHANGED <<loggers, levels, zaps, defaultLevel, primaryFormat,
                             primaryCore, cores>>
              /\ DOMAIN cells' = DOMAIN cells]_vars

\* a goroutine is about to insert a logger into the maps while another one
\* waits in SetLogLevel's RLock, and a third name already has its logger
C17_Witness ==
  \E t, u \in Threads :
    /\ t # u
    /\ pc[t] = "Create" /\ mutex.w = t
    /\ pc[u] = "RLock" /\ frame[u].op = "SetLogLevel"
    /\ DOMAIN loggers # {}

\* the destinations in the order C18 states: file, stdout, stderr, URL
PathsAsStated(cfg) ==
  LET p1 == IF Len(cfg.File) > 0 /\ normalizePath(cfg.File).err = "nil"
            THEN <<normalizePath(cfg.File).path>> ELSE <<>>
      p2 == IF cfg.Stdout THEN Append(p1, "stdout") ELSE p1
      p3 == IF cfg.Stderr THEN Append(p2, "stderr") ELSE p2
  IN IF Len(cfg.URL) > 0 THEN Append(p3, cfg.URL) ELSE p3

(***************************************************************************)
(* C18 as stated: the destination list SetupLogging hands to the backend   *)
(* lists the file path first, then stdout if cfg.Stdout, then stderr if    *)
(* cfg.Stderr, then the URL. The code appends stderr, stdout, the file and *)
(* the URL, in this order.                                                 *)
(***************************************************************************)
C18_OrderAsStated ==
  RetOK("SetupLogging") => primaryCore.outputs = PathsAsStated(ret.arg)

(***************************************************************************)
(* C19 as stated, for wildcard calls: level-setting calls are linearizable.*)
(* In WildcardSpec every AtomicLevel is created at error and is written    *)
(* only by SetLogLevel("*", L) calls with L # error, so after the calls    *)
(* run in any sequential order the holders some call has written are all   *)
(* at the level of the last call: once every call has returned, the        *)
(* holders that are not at error are at one level. The code runs           *)
(* setAllLoggerLevel under the shared lock, and the loops of two calls     *)
(* interleave holder by holder.                                            *)
(***************************************************************************)
C19_WildcardsLinearizable ==
  (\A t \in Threads : pc[t] = "idle") =>
    \A m, n \in DOMAIN levels :
      (cells[levels[m]] # DefaultConfig.Level /\ cells[levels[n]] # DefaultConfig.Level) =>
        cells[levels[m]] = cells[levels[n]]

(***************************************************************************)
(* C20 as stated: all level operations agree on which subsystems are       *)
(* known. SetLogLevel("*", L) leaves every level holder as                 *)
(* SetLogLevelRegex with a pattern matching every name would, and          *)
(* SetLogLevel(name, L) with a valid L succeeds exactly for the names      *)
(* GetSubsystems returns. The wildcard and the exact name go by the levels *)
(* map, the pattern and GetSubsystems by the loggers map, and the levels   *)
(* map also has the names SetupLogging pre-configured.                     *)
(***************************************************************************)
C20_OperationsAgree ==
  [][/\ (ret'.op = "SetLogLevel" /\ ret'.arg[1] = "*" /\ ret'.err = "nil") =>
          cells' = regexSetLevels(Globals, Compile(".*"), RetLevel(ret')).cells
     /\ (ret'.op = "SetLogLevel" /\ ret'.arg[1] # "*"
           /\ LevelFromString(ret'.arg[2]).err = "nil") =>
          (ret'.err = "nil" <=> ret'.arg[1] \in BagToSet(getSubsystems(Globals)))]_vars

====
